---- MODULE Spec2Model ----
(***************************************************************************)
(* Model of the prediction market backend (backend/market_logic.py and the *)
(* request handlers of backend/main.py).                                   *)
(*                                                                         *)
(* Python's float is IEEE-754 binary floating point.  The model keeps the  *)
(* arithmetic of that format (round to nearest, ties to even, gradual      *)
(* underflow, infinities and NaN, math.exp raising OverflowError when its  *)
(* result leaves the finite range) and instantiates it with a significand  *)
(* of P bits and a largest exponent Emax; binary64 is P = 53, Emax = 1023. *)
(* A float is a pair <<m, e>> of value m * 2^e.                            *)
(***************************************************************************)
EXTENDS Integers, Sequences, FiniteSets, TLC

\* Significand width and largest exponent of the float format.
P == 11
Emax == 31

\* Fractional bits of the fixed-point evaluation inside exp and log.
F == 18

Abs(n) == IF n < 0 THEN -n ELSE n
Max(a, b) == IF a >= b THEN a ELSE b
Min(a, b) == IF a <= b THEN a ELSE b
Sgn(n) == IF n < 0 THEN -1 ELSE IF n = 0 THEN 0 ELSE 1

RECURSIVE BitLen(_)
BitLen(n) == IF n = 0 THEN 0 ELSE 1 + BitLen(n \div 2)

\* Exponent of the unit in the last place of the largest / smallest binade.
EmaxQ == Emax - P + 1
EminQ == 2 - Emax - P
ESpecial == EmaxQ + 1

Zero == <<0, EminQ>>
PosInf == <<1, ESpecial>>
NegInf == <<-1, ESpecial>>
NaN == <<0, ESpecial>>

IsNaN(x) == x = NaN
IsInf(x) == x = PosInf \/ x = NegInf
IsFinite(x) == x[2] # ESpecial

Pack(m, e) == IF e > EmaxQ THEN (IF m < 0 THEN NegInf ELSE PosInf) ELSE <<m, e>>

\* a (of len bits) * 2^e with sign s, rounded after dropping drop bits
RndDrop(a, s, e, len, drop) ==
  IF drop <= 0
  THEN Pack(s * a * 2^Min(P - len, e - EminQ), e - Min(P - len, e - EminQ))
  ELSE IF drop > len + 1 THEN Zero
  ELSE IF (a % 2^drop) * 2 > 2^drop \/ ((a % 2^drop) * 2 = 2^drop /\ (a \div 2^drop) % 2 = 1)
       THEN (IF a \div 2^drop + 1 = 2^P
             THEN Pack(s * 2^(P - 1), e + drop + 1)
             ELSE Pack(s * (a \div 2^drop + 1), e + drop))
       ELSE (IF a \div 2^drop = 0 THEN Zero ELSE Pack(s * (a \div 2^drop), e + drop))

RndLen(a, s, e, len) == RndDrop(a, s, e, len, Max(len - P, EminQ - e))

\* The float nearest to n * 2^e, ties to even.
Rnd(n, e) == IF n = 0 THEN Zero ELSE RndLen(Abs(n), Sgn(n), e, BitLen(Abs(n)))

FromInt(n) == Rnd(n, 0)

FNeg(x) == IF IsNaN(x) THEN NaN ELSE <<-x[1], x[2]>>

\* hi + lo for finite non-zero floats, hi the one of the larger exponent
AddOrdered(hi, lo) ==
  IF hi[2] - lo[2] >= P + 3 THEN hi
  ELSE Rnd(hi[1] * 2^(hi[2] - lo[2]) + lo[1], lo[2])

\* x + y
FAdd(x, y) ==
  IF IsNaN(x) \/ IsNaN(y) THEN NaN
  ELSE IF IsInf(x) THEN (IF IsInf(y) /\ x # y THEN NaN ELSE x)
  ELSE IF IsInf(y) THEN y
  ELSE IF x[1] = 0 THEN y
  ELSE IF y[1] = 0 THEN x
  ELSE IF x[2] >= y[2] THEN AddOrdered(x, y) ELSE AddOrdered(y, x)

\* x - y
FSub(x, y) == FAdd(x, FNeg(y))

\* x * y
FMul(x, y) ==
  IF IsNaN(x) \/ IsNaN(y) THEN NaN
  ELSE IF IsInf(x) \/ IsInf(y)
       THEN (IF x[1] = 0 \/ y[1] = 0 THEN NaN
             ELSE IF Sgn(x[1]) = Sgn(y[1]) THEN PosInf ELSE NegInf)
  ELSE Rnd(x[1] * y[1], x[2] + y[2])

\* num / den with sign s and exponent e: the quotient with a sticky last bit
DivRound(num, den, s, e) == Rnd(s * (2 * (num \div den) + (IF num % den = 0 THEN 0 ELSE 1)), e)

DivShift(x, y, k) ==
  DivRound(Abs(x[1]) * 2^k, Abs(y[1]), Sgn(x[1]) * Sgn(y[1]), x[2] - k - y[2] - 1)

\* x / y for y # 0
FDiv(x, y) ==
  IF IsNaN(x) \/ IsNaN(y) THEN NaN
  ELSE IF IsInf(x)
       THEN (IF IsInf(y) THEN NaN
             ELSE IF Sgn(x[1]) = Sgn(y[1]) THEN PosInf ELSE NegInf)
  ELSE IF IsInf(y) THEN Zero
  ELSE IF x[1] = 0 THEN Zero
  ELSE DivShift(x, y, 2 * P + 2 - BitLen(Abs(x[1])))

\* x < y, x <= y, x == y as Python compares floats (false on NaN)
FLt(x, y) ==
  /\ ~IsNaN(x) /\ ~IsNaN(y)
  /\ x # y
  /\ FSub(x, y)[1] < 0
FEq(x, y) == ~IsNaN(x) /\ ~IsNaN(y) /\ x = y
FLe(x, y) == FLt(x, y) \/ FEq(x, y)

(***************************************************************************)
(* math.exp and math.log.  The C library evaluates them to within one unit *)
(* in the last place; the model does the same by range reduction with      *)
(* ln 2 and a series in fixed point with F fractional bits.                *)
(***************************************************************************)
One == 2^F
\* ln 2 in fixed point: floor(ln 2 * 2^30) = 744261117, split in two parts
Ln2Fx == 744261117 \div 2^(30 - F)
Ln2Lo == 744261117 % 2^(30 - F)

\* a * b / 2^F for 0 <= b and |a| < 2^F
MulFx(a, b) == (a * (b \div 1024)) \div 2^(F - 10) + (a * (b % 1024)) \div 2^F

\* k * ln 2 in fixed point
KLn2(k) == k * Ln2Fx + (k * Ln2Lo) \div 2^(30 - F)

\* the float x in fixed point (|x| <= Emax + P + 1)
ToFixed(x) ==
  IF x[2] + F >= 0 THEN x[1] * 2^(x[2] + F)
  ELSE IF -(x[2] + F) > P THEN (IF x[1] < 0 THEN -1 ELSE 0)
  ELSE x[1] \div 2^(-(x[2] + F))

\* sum_{j >= 0} r^j * (i-1)! / (i-1+j)!  : e^r = ExpTail(r, 1)
RECURSIVE ExpTail(_, _)
ExpTail(r, i) == IF i > 12 THEN One ELSE One + MulFx(r, ExpTail(r, i + 1)) \div i

\* sum_{j >= i} z2^(j-i) / (2j+1)  : atanh z = z * AtanhTail(z^2, 0)
RECURSIVE AtanhTail(_, _)
AtanhTail(z2, i) == IF i > 9 THEN 0 ELSE One \div (2 * i + 1) + MulFx(z2, AtanhTail(z2, i + 1))

\* What a Python call produces: a value, or an exception with its message.
Return(v) == [exc |-> "none", msg |-> "", val |-> v]
Raise(e, msg) == [exc |-> e, msg |-> msg, val |-> NaN]
Returned(r) == r.exc = "none"

\* the result of math.exp, or OverflowError when it is beyond the largest float
ExpResult(res) ==
  IF res = PosInf THEN Raise("OverflowError", "math range error") ELSE Return(res)

\* e^(xf / 2^F) from xf = k * ln 2 + r
ExpReduced(xf, k) == ExpResult(Rnd(ExpTail(xf - KLn2(k), 1), k - F))

ExpFixed(xf) == ExpReduced(xf, xf \div Ln2Fx)

\* math.exp(x)
math_exp(x) ==
  IF IsNaN(x) THEN Return(NaN)
  ELSE IF x = PosInf THEN Return(PosInf)
  ELSE IF x = NegInf THEN Return(Zero)
  ELSE IF FLt(FromInt(Emax + 1), x) THEN Raise("OverflowError", "math range error")
  ELSE IF FLt(x, FromInt(-(Emax + P + 1))) THEN Return(Zero)
  ELSE ExpFixed(ToFixed(x))

\* atanh(z / 2^F) in fixed point
Atanh(z) == MulFx(z, AtanhTail(MulFx(z, z), 0))

\* log of m * 2^e, m of len bits: (e + len - 1) * ln 2 + 2 * atanh((f - 1) / (f + 1))
\* for f = m / 2^(len - 1)
LogLen(m, e, len) ==
  Rnd(KLn2(e + len - 1) + 2 * Atanh(((m - 2^(len - 1)) * One) \div (m + 2^(len - 1))), -F)

\* math.log(x): ValueError unless x > 0
math_log(x) ==
  IF IsNaN(x) THEN Return(NaN)
  ELSE IF x = PosInf THEN Return(PosInf)
  ELSE IF x[1] <= 0 THEN Raise("ValueError", "math domain error")
  ELSE Return(LogLen(x[1], x[2], BitLen(x[1])))

\* x / y in Python: ZeroDivisionError on a zero divisor
float_div(x, y) ==
  IF IsFinite(y) /\ y[1] = 0 THEN Raise("ZeroDivisionError", "float division by zero")
  ELSE Return(FDiv(x, y))

(***************************************************************************)
(* backend/market_logic.py                                                 *)
(***************************************************************************)
\* str.upper() on a string given as the sequence of its characters
upper_char(c) ==
  CASE c = "y" -> "Y" [] c = "e" -> "E" [] c = "s" -> "S"
    [] c = "n" -> "N" [] c = "o" -> "O" [] c = "m" -> "M"
    [] c = "a" -> "A" [] c = "b" -> "B"
    [] OTHER -> c
\* a variant of the normalisation that keeps the label as given
as_given(s) == s

upper(s) == [i \in DOMAIN s |-> upper_char(s[i])]

YES == <<"Y", "E", "S">>
NO == <<"N", "O">>

\* math.exp(a) for the quotient a, if the division returned
exp_quotient(a) == IF Returned(a) THEN math_exp(a.val) ELSE a

\* math.exp(q / b)
exp_of(q, b) == exp_quotient(float_div(q, b))

\* b * lg for the logarithm lg, if math.log returned
scaled_log(b, lg) == IF Returned(lg) THEN Return(FMul(b, lg.val)) ELSE lg

\* b * math.log(exp_yes + exp_no); an exception raised for exp_yes or exp_no propagates
log_sum(exp_yes, exp_no, b) ==
  IF ~Returned(exp_yes) THEN exp_yes
  ELSE IF ~Returned(exp_no) THEN exp_no
  ELSE scaled_log(b, math_log(FAdd(exp_yes.val, exp_no.val)))

\* cost_function: b * log(exp(q_yes / b) + exp(q_no / b)), evaluated as written
cost_function(q_yes, q_no, b) == log_sum(exp_of(q_yes, b), exp_of(q_no, b), b)

\* a variant of the totals that adds delta to q_yes whatever the side
new_totals_yes(q_yes, q_no, delta, side_upper) == <<FAdd(q_yes, delta), q_no>>

\* the totals after the purchase of delta shares of side_upper
new_totals(q_yes, q_no, delta, side_upper) ==
  IF side_upper = YES THEN <<FAdd(q_yes, delta), q_no>> ELSE <<q_yes, FAdd(q_no, delta)>>

\* new_cost - old_cost; an exception raised for new_cost or old_cost propagates
cost_difference(new_cost, old_cost) ==
  IF ~Returned(new_cost) THEN new_cost
  ELSE IF ~Returned(old_cost) THEN old_cost
  ELSE Return(FSub(new_cost.val, old_cost.val))

cost_of_move(q, q_yes, q_no, b) ==
  cost_difference(cost_function(q[1], q[2], b), cost_function(q_yes, q_no, b))

\* a variant of the quantity check that lets a zero quantity through
delta_negative(delta) == FLt(delta, Zero)

\* if delta <= 0
delta_not_positive(delta) == FLe(delta, Zero)

\* if side_upper not in {"YES", "NO"}
side_invalid(side_upper) == side_upper \notin {YES, NO}

cost_for_shares(q_yes, q_no, delta, side, b) ==
  IF delta_not_positive(delta) THEN Raise("ValueError", "delta must be positive")
  ELSE IF side_invalid(upper(side)) THEN Raise("ValueError", "side must be 'YES' or 'NO'")
  ELSE cost_of_move(new_totals(q_yes, q_no, delta, upper(side)), q_yes, q_no, b)

\* a variant of the price that divides by exp_no alone
exp_ratio(exp_yes, exp_no) ==
  IF ~Returned(exp_yes) THEN exp_yes
  ELSE IF ~Returned(exp_no) THEN exp_no
  ELSE float_div(exp_yes.val, exp_no.val)

\* exp_yes / (exp_yes + exp_no); an exception raised for exp_yes or exp_no propagates
exp_share(exp_yes, exp_no) ==
  IF ~Returned(exp_yes) THEN exp_yes
  ELSE IF ~Returned(exp_no) THEN exp_no
  ELSE float_div(exp_yes.val, FAdd(exp_yes.val, exp_no.val))

price_yes(q_yes, q_no, b) == exp_share(exp_of(q_yes, b), exp_of(q_no, b))

\* 1.0 - p for the price p, if price_yes returned
complement(p) == IF Returned(p) THEN Return(FSub(FromInt(1), p.val)) ELSE p

price_no(q_yes, q_no, b) == complement(price_yes(q_yes, q_no, b))

(***************************************************************************)
(* The pricing engine called on inputs drawn from bounded sets: the four   *)
(* functions are called one after the other on the same inputs.            *)
(***************************************************************************)
VARIABLES
  eng,        \* one set of engine inputs and the result of each engine call
  dialect,    \* the database behind DATABASE_URL
  users,      \* table users: id -> row
  markets,    \* table markets: id -> row
  bets,       \* table bets, in insertion order
  bet_seq,    \* last primary key handed out for bets
  req,        \* the requests being handled: arguments, session state and position
  started,    \* number of requests received so far
  audit,      \* per accepted bet: the totals it was priced from / found at commit
  paid,       \* ids of the bets a resolution has paid out
  clock       \* datetime.now(timezone.utc), in hours

engine_vars == <<eng>>
server_vars == <<dialect, users, markets, bets, bet_seq, req, started, audit, paid, clock>>
vars == <<eng, dialect, users, markets, bets, bet_seq, req, started, audit, paid, clock>>

Pending == [exc |-> "pending", msg |-> "", val |-> NaN]

\* Share totals, quantities, liquidities and side labels the engine is called with
QSet == {FromInt(0), FromInt(1), FromInt(5), FromInt(10), FromInt(22), FromInt(23),
         FromInt(100000)}
BSet == {<<1, EminQ>>, FromInt(1), FromInt(100)}
DSet == {FromInt(-1), FromInt(0), <<1, EminQ>>, FromInt(1), FromInt(5), FromInt(6)}
SideSet == {YES, NO, <<"y", "e", "s">>, <<"n", "o">>, <<"Y", "e", "s">>,
            <<"M", "A", "Y", "B", "E">>, <<>>}

EngineIdle == [q_yes |-> Zero, q_no |-> Zero, delta |-> Zero, side |-> YES, b |-> FromInt(1),
               C |-> Pending, cost |-> Pending, p_yes |-> Pending, p_no |-> Pending,
               cost_again |-> Pending, cost_next |-> Pending, cost_double |-> Pending,
               p_yes_after |-> Pending, cost_mirror |-> Pending]

\* the calls to make: arguments chosen, no result yet
EngineCalls ==
  {[q_yes |-> q_yes, q_no |-> q_no, delta |-> delta, side |-> side, b |-> b,
    C |-> Pending, cost |-> Pending, p_yes |-> Pending, p_no |-> Pending,
    cost_again |-> Pending, cost_next |-> Pending, cost_double |-> Pending,
    p_yes_after |-> Pending, cost_mirror |-> Pending] :
     q_yes \in QSet, q_no \in QSet, delta \in DSet, side \in SideSet, b \in BSet}

call_cost_function ==
  /\ eng.C = Pending
  /\ eng' = [eng EXCEPT !.C = cost_function(eng.q_yes, eng.q_no, eng.b)]
  /\ UNCHANGED server_vars

\* a variant of the call in which the engine adds delta to the caller's q_yes
call_cost_for_shares_applying ==
  /\ eng.C # Pending
  /\ eng.cost = Pending
  /\ eng' = [eng EXCEPT !.cost = cost_for_shares(eng.q_yes, eng.q_no, eng.delta, eng.side, eng.b),
                        !.q_yes = FAdd(eng.q_yes, eng.delta)]
  /\ UNCHANGED server_vars

call_cost_for_shares ==
  /\ eng.C # Pending
  /\ eng.cost = Pending
  /\ eng' = [eng EXCEPT !.cost = cost_for_shares(eng.q_yes, eng.q_no, eng.delta, eng.side, eng.b)]
  /\ UNCHANGED server_vars

call_price_yes ==
  /\ eng.cost # Pending
  /\ eng.p_yes = Pending
  /\ eng' = [eng EXCEPT !.p_yes = price_yes(eng.q_yes, eng.q_no, eng.b)]
  /\ UNCHANGED server_vars

call_price_no ==
  /\ eng.p_yes # Pending
  /\ eng.p_no = Pending
  /\ eng' = [eng EXCEPT !.p_no = price_no(eng.q_yes, eng.q_no, eng.b)]
  /\ UNCHANGED server_vars

\* the same call of cost_for_shares a second time
call_cost_for_shares_again ==
  /\ eng.p_no # Pending
  /\ eng.cost_again = Pending
  /\ eng' = [eng EXCEPT !.cost_again =
                cost_for_shares(eng.q_yes, eng.q_no, eng.delta, eng.side, eng.b)]
  /\ UNCHANGED server_vars

\* cost_for_shares for the same trade once more, at the totals the caller holds
\* after it has applied the first one
cost_of_next(q, delta, side, b) == cost_for_shares(q[1], q[2], delta, side, b)

call_cost_for_next_shares ==
  /\ eng.cost_again # Pending
  /\ eng.cost_next = Pending
  /\ eng' = [eng EXCEPT !.cost_next =
                cost_of_next(new_totals(eng.q_yes, eng.q_no, eng.delta, upper(eng.side)),
                             eng.delta, eng.side, eng.b)]
  /\ UNCHANGED server_vars

\* cost_for_shares for twice the quantity at the same totals
call_cost_for_double_shares ==
  /\ eng.cost_next # Pending
  /\ eng.cost_double = Pending
  /\ eng' = [eng EXCEPT !.cost_double =
                cost_for_shares(eng.q_yes, eng.q_no, FAdd(eng.delta, eng.delta), eng.side, eng.b)]
  /\ UNCHANGED server_vars

\* price_yes at the totals with q_yes increased by delta
call_price_yes_after ==
  /\ eng.cost_double # Pending
  /\ eng.p_yes_after = Pending
  /\ eng' = [eng EXCEPT !.p_yes_after =
                price_yes(FAdd(eng.q_yes, eng.delta), eng.q_no, eng.b)]
  /\ UNCHANGED server_vars

\* the other side label
mirror(side) == IF upper(side) = YES THEN NO ELSE IF upper(side) = NO THEN YES ELSE side

\* cost_for_shares for the same quantity of the other side at the totals swapped
call_cost_for_mirrored_shares ==
  /\ eng.p_yes_after # Pending
  /\ eng.cost_mirror = Pending
  /\ eng' = [eng EXCEPT !.cost_mirror =
                cost_for_shares(eng.q_no, eng.q_yes, eng.delta, mirror(eng.side), eng.b)]
  /\ UNCHANGED server_vars

(***************************************************************************)
(* backend/main.py: the tables and the request handlers.  A handler runs   *)
(* in its own SQLAlchemy session: what it has read stays as loaded until   *)
(* its commit, which writes the columns it changed.  Handlers of different *)
(* requests run concurrently and interleave between their queries.         *)
(***************************************************************************)
MaxRequests == 2
MaxActive == 2
MaxMarkets == 1
MaxUsers == 2
MaxClaims == 3
MaxClock == 24

Amounts == {FromInt(5), FromInt(10), FromInt(100)}
BetSides == {YES, <<"n", "o">>}
Outcomes == {<<"y", "e", "s">>, NO}
Dialects == {"postgresql", "sqlite"}

None == <<"None">>
DELETED == <<"D", "E", "L", "E", "T", "E", "D">>

ADMIN_USERNAME == "lambert"
ADMIN_PASSWORD == "predictit123"
Credentials == {<<"lambert", "predictit123">>, <<"lambert", "guess">>,
                <<"mallory", "predictit123">>}
\* liquidity of a MarketCreateRequest: absent, or a number
LiquidityRequests == {[given |-> FALSE, value |-> Zero], [given |-> TRUE, value |-> Zero],
                      [given |-> TRUE, value |-> NaN],
                      [given |-> TRUE, value |-> FromInt(-5)],
                      [given |-> TRUE, value |-> FromInt(1)]}

Slots == 1..MaxActive
UserIds == 1..MaxUsers
MarketIds == 1..MaxMarkets

\* a worker with no request; admin: the request carried the admin username and
\* password (a ResolveRequest has no such fields)
Idle == [op |-> "none", pc |-> "idle", user_id |-> 0, market_id |-> 0, side |-> <<>>,
         amount |-> Zero, balance |-> Zero, q_yes |-> Zero, q_no |-> Zero,
         total_cost |-> Zero, s_bets |-> <<>>, s_users |-> <<>>,
         status |-> 0, detail |-> "", resolved_at_begin |-> FALSE, report |-> <<>>,
         admin |-> FALSE, last_bonus_claim |-> {}, now |-> 0]

ServerInit ==
  /\ dialect \in Dialects
  /\ clock = 0
  /\ users = <<>>
  /\ markets = <<>>
  /\ bets = <<>>
  /\ bet_seq = 0
  /\ req = [s \in Slots |-> Idle]
  /\ started = 0
  /\ audit = <<>>
  /\ paid = {}

\* verify_admin: TRUE when it raises 403
verify_admin(username, password) == username # ADMIN_USERNAME \/ password # ADMIN_PASSWORD

\* HTTPException(status, detail), or the response of a handler that returns
respond(s, status, detail) ==
  [req EXCEPT ![s] = [Idle EXCEPT !.op = req[s].op, !.pc = "done",
                                  !.status = status, !.detail = detail,
                                  !.resolved_at_begin = req[s].resolved_at_begin]]

\* A worker is free to handle the next request: the session of the request it
\* handled before is closed.  At most limit requests are received.
free(s) == req[s].pc \in {"idle", "done"}
can_begin_within(s, limit) ==
  /\ free(s)
  /\ \A t \in Slots : t < s => ~free(t)
  /\ started < limit
can_begin(s) == can_begin_within(s, MaxRequests)

\* Users register and markets are created before the first of these requests
setting_up == started = 0

is_resolved(m) == m \in DOMAIN markets /\ markets[m].resolved

\* The market row is locked FOR UPDATE by the session of another request
\* (SQLite has no row locks: the dialect leaves FOR UPDATE out of the query)
row_locked(m, s) ==
  /\ dialect = "postgresql"
  /\ \E t \in Slots \ {s} :
       /\ req[t].op = "resolve_market"
       /\ req[t].market_id = m
       /\ req[t].pc \in {"rs_bets", "rs_users", "rs_commit"}

\* What db.commit() leaves in a column the session had loaded as loaded and holds
\* as new: the unit of work writes the column only if its value has changed
written(loaded, new, current) == IF new = loaded THEN current ELSE new

\* User(..., balance=100.0): last_bonus_claim is NULL.  A last_bonus_claim is the
\* set of the one hour it holds, empty for NULL
new_user == [balance |-> FromInt(100), last_bonus_claim |-> {}]

\* POST /register: taken says whether the query for the username finds a user
register(taken) ==
  /\ setting_up
  /\ Len(users) < MaxUsers
  /\ taken => users # <<>>
  /\ IF taken
     THEN UNCHANGED users
     ELSE users' = Append(users, new_user)
  /\ UNCHANGED <<clock, eng, dialect, markets, bets, bet_seq, req, started, audit, paid>>

\* a variant of create_market's choice that stores the liquidity as requested
liquidity_as_requested(l) == l.value

\* liquidity stored by create_market
create_liquidity(l) == IF l.given /\ l.value # Zero /\ FLt(Zero, l.value) THEN l.value ELSE FromInt(100)

\* price_yes=0.5, price_no=0.5 of the response of create_market
initial_price == Rnd(1, -1)

\* POST /markets
create_market(l, cred) ==
  /\ setting_up
  /\ Len(markets) < MaxMarkets
  /\ IF verify_admin(cred[1], cred[2])
     THEN UNCHANGED markets
     ELSE markets' = Append(markets, [yes_shares |-> Zero, no_shares |-> Zero,
                                       liquidity |-> create_liquidity(l),
                                       resolved |-> FALSE, outcome |-> None])
  /\ UNCHANGED <<clock, eng, dialect, users, bets, bet_seq, req, started, audit, paid>>

(***************************************************************************)
(* POST /bet                                                               *)
(***************************************************************************)
receive_place_bet(s, u, m, side, amount) ==
  /\ req' = [req EXCEPT ![s] = [Idle EXCEPT !.op = "place_bet", !.pc = "pb_user",
                                            !.user_id = u, !.market_id = m,
                                            !.side = side, !.amount = amount,
                                            !.resolved_at_begin = is_resolved(m)]]
  /\ started' = started + 1
  /\ UNCHANGED <<clock, eng, dialect, users, markets, bets, bet_seq, audit, paid>>

begin_place_bet(s, u, m, side, amount) ==
  can_begin(s) /\ receive_place_bet(s, u, m, side, amount)

\* user = db.query(User)...first()
pb_user(s) ==
  /\ req[s].pc = "pb_user"
  /\ IF req[s].user_id \notin DOMAIN users
     THEN req' = respond(s, 404, "User not found")
     ELSE req' = [req EXCEPT ![s].pc = "pb_market",
                             ![s].balance = users[req[s].user_id].balance]
  /\ UNCHANGED <<clock, eng, dialect, users, markets, bets, bet_seq, started, audit, paid>>

\* a variant of the resolved check that never closes a market
market_never_closed(market) == FALSE

\* if market.resolved: raise
market_closed(market) == market.resolved

\* if user.balance < total_cost: raise
cannot_afford(balance, total_cost) == FLt(balance, total_cost)

\* market = db.query(Market)...first(), the checks, and the cost of the trade
\* the request of slot s once the trade on market is priced at total_cost
priced(s, market, side_upper, total_cost) ==
  IF ~Returned(total_cost)
  THEN respond(s, 500, total_cost.exc)
  ELSE IF cannot_afford(req[s].balance, total_cost.val)
  THEN respond(s, 400, "Insufficient balance to place bet")
  ELSE [req EXCEPT ![s].pc = "pb_commit",
                   ![s].side = side_upper,
                   ![s].q_yes = market.yes_shares,
                   ![s].q_no = market.no_shares,
                   ![s].total_cost = total_cost.val]

pb_market(s) ==
  /\ req[s].pc = "pb_market"
  /\ IF req[s].market_id \notin DOMAIN markets
     THEN req' = respond(s, 404, "Market not found")
     ELSE LET market == markets[req[s].market_id]
              side_upper == upper(req[s].side)
          IN IF market_closed(market)
             THEN req' = respond(s, 400, "Market is already resolved")
             ELSE req' = priced(s, market, side_upper,
                                cost_for_shares(market.yes_shares, market.no_shares,
                                                req[s].amount, side_upper, market.liquidity))
  /\ UNCHANGED <<clock, eng, dialect, users, markets, bets, bet_seq, started, audit, paid>>

\* the response once the price snapshot p_yes is computed
snapshot(s, p_yes) == IF Returned(p_yes) THEN respond(s, 200, "") ELSE respond(s, 500, p_yes.exc)

\* SQLite stores a NaN as NULL, which balance, price and total_cost
\* (nullable=False) refuse; PostgreSQL stores it
not_storable(x) == dialect = "sqlite" /\ IsNaN(x)

\* db.commit() raises IntegrityError: nothing is written
pb_commit_refused(s) ==
  /\ req[s].pc = "pb_commit"
  /\ not_storable(req[s].total_cost)
  /\ req' = respond(s, 500, "IntegrityError")
  /\ UNCHANGED <<clock, eng, dialect, users, markets, bets, bet_seq, started, audit, paid>>

\* market.yes_shares += amount / market.no_shares += amount; user.balance -= total_cost;
\* db.add(bet); db.commit(): the changed columns are written with the values
\* computed from what the session had loaded; then the price snapshot of the market
pb_commit(s) ==
  /\ req[s].pc = "pb_commit"
  /\ ~row_locked(req[s].market_id, s)
  /\ ~not_storable(req[s].total_cost)
  /\ LET r == req[s]
         m == r.market_id
     IN /\ markets' = [markets EXCEPT
                         ![m].yes_shares = IF r.side = YES
                                           THEN written(r.q_yes, FAdd(r.q_yes, r.amount), @)
                                           ELSE @,
                         ![m].no_shares = IF r.side = YES
                                          THEN @
                                          ELSE written(r.q_no, FAdd(r.q_no, r.amount), @)]
        /\ users' = [users EXCEPT ![r.user_id].balance =
                                    written(r.balance, FSub(r.balance, r.total_cost), @)]
        /\ bets' = Append(bets, [id |-> bet_seq + 1, user_id |-> r.user_id, market_id |-> m,
                                 side |-> r.side, amount |-> r.amount,
                                 total_cost |-> r.total_cost])
        /\ bet_seq' = bet_seq + 1
        /\ audit' = Append(audit, [market_id |-> m,
                                   priced |-> <<r.q_yes, r.q_no>>,
                                   found |-> <<markets[m].yes_shares, markets[m].no_shares>>,
                                   resolved |-> markets[m].resolved])
        /\ req' = snapshot(s, price_yes(markets'[m].yes_shares, markets'[m].no_shares,
                                         markets'[m].liquidity))
  /\ UNCHANGED <<clock, eng, dialect, started, paid>>

(***************************************************************************)
(* POST /resolve                                                           *)
(***************************************************************************)
receive_resolve_market(s, m, outcome) ==
  /\ req' = [req EXCEPT ![s] = [Idle EXCEPT !.op = "resolve_market", !.pc = "rs_market",
                                            !.market_id = m, !.side = outcome,
                                            !.resolved_at_begin = is_resolved(m)]]
  /\ started' = started + 1
  /\ UNCHANGED <<clock, eng, dialect, users, markets, bets, bet_seq, audit, paid>>

begin_resolve_market(s, m, outcome) ==
  can_begin(s) /\ receive_resolve_market(s, m, outcome)

\* db.query(Market)...with_for_update().first() and the checks
rs_market(s) ==
  /\ req[s].pc = "rs_market"
  /\ ~row_locked(req[s].market_id, s)
  /\ IF req[s].market_id \notin DOMAIN markets
     THEN req' = respond(s, 404, "Market not found")
     ELSE IF markets[req[s].market_id].resolved
     THEN req' = respond(s, 400, "Market has already been resolved")
     ELSE IF upper(req[s].side) \notin {YES, NO}
     THEN req' = respond(s, 400, "Outcome must be 'YES' or 'NO'")
     ELSE req' = [req EXCEPT ![s].pc = "rs_bets", ![s].side = upper(req[s].side)]
  /\ UNCHANGED <<clock, eng, dialect, users, markets, bets, bet_seq, started, audit, paid>>

market_bets(m) == SelectSeq(bets, LAMBDA bet : bet.market_id = m)

is_winner(bet, outcome_upper) == upper(bet.side) = outcome_upper

\* credit_by_user[u] after the loop over the bets
RECURSIVE credit_by_user(_, _, _)
credit_by_user(bs, u, outcome_upper) ==
  IF bs = <<>> THEN Zero
  ELSE LET bet == bs[Len(bs)]
           before == credit_by_user(SubSeq(bs, 1, Len(bs) - 1), u, outcome_upper)
       IN IF bet.user_id = u /\ is_winner(bet, outcome_upper)
          THEN FAdd(before, bet.amount)
          ELSE before

\* the keys of credit_by_user
credited(bs, outcome_upper) ==
  {bs[i].user_id : i \in {j \in DOMAIN bs : is_winner(bs[j], outcome_upper)}}

\* bets = db.query(Bet).filter(Bet.market_id == market.id).all()
rs_bets(s) ==
  /\ req[s].pc = "rs_bets"
  /\ LET bs == market_bets(req[s].market_id)
     IN req' = [req EXCEPT ![s].s_bets = bs,
                           ![s].pc = IF credited(bs, req[s].side) = {}
                                     THEN "rs_commit" ELSE "rs_users"]
  /\ UNCHANGED <<clock, eng, dialect, users, markets, bets, bet_seq, started, audit, paid>>

\* users = db.query(User).filter(User.id.in_(credit_by_user.keys())).all()
rs_users(s) ==
  /\ req[s].pc = "rs_users"
  /\ req' = [req EXCEPT ![s].s_users = [u \in DOMAIN users |-> users[u].balance],
                        ![s].pc = "rs_commit"]
  /\ UNCHANGED <<clock, eng, dialect, users, markets, bets, bet_seq, started, audit, paid>>

\* u.balance = u.balance + credit; market.resolved = True; market.outcome; db.commit()
rs_commit(s) ==
  /\ req[s].pc = "rs_commit"
  /\ LET r == req[s]
         keys == credited(r.s_bets, r.side)
     IN /\ users' = [u \in DOMAIN users |->
                       IF u \in keys
                       THEN [users[u] EXCEPT !.balance =
                               written(r.s_users[u],
                                       FAdd(r.s_users[u], credit_by_user(r.s_bets, u, r.side)), @)]
                       ELSE users[u]]
        /\ markets' = [markets EXCEPT ![r.market_id].resolved = TRUE,
                                      ![r.market_id].outcome = r.side]
        /\ paid' = paid \cup {r.s_bets[i].id : i \in {j \in DOMAIN r.s_bets :
                                                      is_winner(r.s_bets[j], r.side)}}
        /\ req' = respond(s, 200, "")
  /\ UNCHANGED <<clock, eng, dialect, bets, bet_seq, started, audit>>

(***************************************************************************)
(* POST /user/{user_id}/claim_bonus                                        *)
(***************************************************************************)
BonusCooldown == 23
BonusAmount == FromInt(50)
BonusLimit == FromInt(500)

receive_claim_daily_bonus(s, u) ==
  /\ req' = [req EXCEPT ![s] = [Idle EXCEPT !.op = "claim_daily_bonus", !.pc = "cb_user",
                                            !.user_id = u]]
  /\ started' = started + 1
  /\ UNCHANGED <<clock, eng, dialect, users, markets, bets, bet_seq, audit, paid>>

\* elapsed < timedelta(hours=23), for a last_bonus_claim that is set
claimed_recently(last, now) == \E t \in last : now - t < BonusCooldown

\* user.balance > 500
balance_too_high(balance) == FLt(BonusLimit, balance)

\* user = db.query(User)...first(); now = datetime.now(timezone.utc) and the checks
cb_user(s) ==
  /\ req[s].pc = "cb_user"
  /\ IF req[s].user_id \notin DOMAIN users
     THEN req' = respond(s, 404, "User not found")
     ELSE IF claimed_recently(users[req[s].user_id].last_bonus_claim, clock)
     THEN req' = respond(s, 400, "Bonus already claimed")
     ELSE IF balance_too_high(users[req[s].user_id].balance)
     THEN req' = respond(s, 400, "Balance too high to claim bonus")
     ELSE req' = [req EXCEPT ![s].balance = users[req[s].user_id].balance,
                             ![s].last_bonus_claim = users[req[s].user_id].last_bonus_claim,
                             ![s].now = clock,
                             ![s].pc = "cb_commit"]
  /\ UNCHANGED <<clock, eng, dialect, users, markets, bets, bet_seq, started, audit, paid>>

\* user.balance += 50; user.last_bonus_claim = now; db.commit()
cb_commit(s) ==
  /\ req[s].pc = "cb_commit"
  /\ LET r == req[s]
     IN users' = [users EXCEPT
                    ![r.user_id].balance = written(r.balance, FAdd(r.balance, BonusAmount), @),
                    ![r.user_id].last_bonus_claim = written(r.last_bonus_claim, {r.now}, @)]
  /\ req' = respond(s, 200, "")
  /\ UNCHANGED <<clock, eng, dialect, markets, bets, bet_seq, started, audit>>
  /\ UNCHANGED paid

\* time passes
tick(hours) ==
  /\ clock + hours <= MaxClock
  /\ clock' = clock + hours
  /\ UNCHANGED <<eng, dialect, users, markets, bets, bet_seq, req, started, audit, paid>>

(***************************************************************************)
(* DELETE /markets/{market_id}                                             *)
(***************************************************************************)
begin_delete_market(s, m, cred) ==
  /\ can_begin(s)
  /\ req' = [req EXCEPT ![s] =
               IF verify_admin(cred[1], cred[2])
               THEN [Idle EXCEPT !.op = "delete_market", !.pc = "done", !.market_id = m,
                                 !.status = 403, !.detail = "**Admin access required**",
                                 !.resolved_at_begin = is_resolved(m)]
               ELSE [Idle EXCEPT !.op = "delete_market", !.pc = "dl_market", !.market_id = m,
                                 !.resolved_at_begin = is_resolved(m), !.admin = TRUE]]
  /\ started' = started + 1
  /\ UNCHANGED <<clock, eng, dialect, users, markets, bets, bet_seq, audit, paid>>

\* market = db.query(Market)...first()
dl_market(s) ==
  /\ req[s].pc = "dl_market"
  /\ IF req[s].market_id \notin DOMAIN markets
     THEN req' = respond(s, 404, "Market not found")
     ELSE req' = [req EXCEPT ![s].pc = "dl_bets"]
  /\ UNCHANGED <<clock, eng, dialect, users, markets, bets, bet_seq, started, audit, paid>>

\* bets = db.query(Bet).filter(Bet.market_id == market_id).all()
dl_bets(s) ==
  /\ req[s].pc = "dl_bets"
  /\ LET bs == market_bets(req[s].market_id)
     IN req' = [req EXCEPT ![s].s_bets = bs,
                           ![s].pc = IF bs = <<>> THEN "dl_commit" ELSE "dl_users"]
  /\ UNCHANGED <<clock, eng, dialect, users, markets, bets, bet_seq, started, audit, paid>>

\* user = db.query(User).filter(User.id == bet.user_id).first(), in the loop
dl_users(s) ==
  /\ req[s].pc = "dl_users"
  /\ req' = [req EXCEPT ![s].s_users = [u \in DOMAIN users |-> users[u].balance],
                        ![s].pc = "dl_commit"]
  /\ UNCHANGED <<clock, eng, dialect, users, markets, bets, bet_seq, started, audit, paid>>

\* user.balance after the loop: += bet.total_cost for each of the user's bets
RECURSIVE refunded(_, _, _)
refunded(bs, u, balance) ==
  IF bs = <<>> THEN balance
  ELSE refunded(Tail(bs), u,
                IF Head(bs).user_id = u THEN FAdd(balance, Head(bs).total_cost) ELSE balance)

\* market.resolved = True; market.outcome = "DELETED"; delete the bets; db.commit()
dl_commit(s) ==
  /\ req[s].pc = "dl_commit"
  /\ ~row_locked(req[s].market_id, s)
  /\ LET r == req[s]
         owners == {r.s_bets[i].user_id : i \in DOMAIN r.s_bets}
     IN /\ users' = [u \in DOMAIN users |->
                       IF u \in owners
                       THEN [users[u] EXCEPT !.balance =
                               written(r.s_users[u], refunded(r.s_bets, u, r.s_users[u]), @)]
                       ELSE users[u]]
        /\ markets' = [markets EXCEPT ![r.market_id].resolved = TRUE,
                                      ![r.market_id].outcome = DELETED]
        /\ bets' = SelectSeq(bets, LAMBDA bet : bet.market_id # r.market_id)
        /\ req' = respond(s, 200, "")
  /\ UNCHANGED <<clock, eng, dialect, bet_seq, started, audit, paid>>

(***************************************************************************)
(* GET /markets/{market_id} and GET /markets                               *)
(***************************************************************************)
\* p_yes and p_no = 1.0 - p_yes of a response, if the price was obtained
prices_of(p) == IF Returned(p) THEN Return(<<p.val, FSub(FromInt(1), p.val)>>) ELSE p

\* p_yes = 1.0 if market.outcome == "YES" else 0.0
resolved_price(market) == Return(IF market.outcome = YES THEN FromInt(1) ELSE Zero)

\* the prices get_market reports for a market row
get_market_prices(market) ==
  IF market.resolved
  THEN prices_of(resolved_price(market))
  ELSE prices_of(price_yes(market.yes_shares, market.no_shares, market.liquidity))

\* getattr(m, "deleted", False): deleted is no column of Market, so a row loaded
\* from the table has no such attribute
has_deleted(market) == FALSE

\* the prices list_markets reports for a market row
list_markets_prices(market) ==
  IF has_deleted(market) THEN Return(<<Zero, Zero>>)
  ELSE IF market.resolved
  THEN prices_of(resolved_price(market))
  ELSE prices_of(price_yes(market.yes_shares, market.no_shares, market.liquidity))

\* the MarketResponse for market m with the prices found
market_response(m, prices) ==
  [market_id |-> m, resolved |-> markets[m].resolved, outcome |-> markets[m].outcome,
   price_yes |-> prices.val[1], price_no |-> prices.val[2]]

\* the request of slot s answered at once
answered(s, op, status, detail, report) ==
  [req EXCEPT ![s] = [Idle EXCEPT !.op = op, !.pc = "done", !.status = status,
                                  !.detail = detail, !.report = report]]

\* the answer of get_market given the prices
get_market_answer(s, m, prices) ==
  IF Returned(prices)
  THEN answered(s, "get_market", 200, "", <<market_response(m, prices)>>)
  ELSE answered(s, "get_market", 500, prices.exc, <<>>)

get_market(s, m) ==
  /\ can_begin(s)
  /\ IF m \notin DOMAIN markets
     THEN req' = answered(s, "get_market", 404, "Market not found", <<>>)
     ELSE req' = get_market_answer(s, m, get_market_prices(markets[m]))
  /\ started' = started + 1
  /\ UNCHANGED <<clock, eng, dialect, users, markets, bets, bet_seq, audit, paid>>

\* the answer of list_markets given the prices of each market
list_markets_answer(s, prices) ==
  IF \A m \in DOMAIN prices : Returned(prices[m])
  THEN answered(s, "list_markets", 200, "",
                [m \in DOMAIN prices |-> market_response(m, prices[m])])
  ELSE answered(s, "list_markets", 500, "OverflowError", <<>>)

list_markets(s) ==
  /\ can_begin(s)
  /\ req' = list_markets_answer(s, [m \in DOMAIN markets |-> list_markets_prices(markets[m])])
  /\ started' = started + 1
  /\ UNCHANGED <<clock, eng, dialect, users, markets, bets, bet_seq, audit, paid>>

(***************************************************************************)
(* The specifications                                                      *)
(***************************************************************************)
Init == ServerInit /\ eng = EngineIdle

Next ==
  \/ \E taken \in BOOLEAN : register(taken)
  \/ \E l \in LiquidityRequests, cred \in Credentials : create_market(l, cred)
  \/ \E s \in Slots, u \in UserIds, m \in MarketIds, side \in BetSides, amount \in Amounts :
       begin_place_bet(s, u, m, side, amount)
  \/ \E s \in Slots : pb_user(s)
  \/ \E s \in Slots : pb_market(s)
  \/ \E s \in Slots : pb_commit(s)
  \/ \E s \in Slots, m \in MarketIds, outcome \in Outcomes : begin_resolve_market(s, m, outcome)
  \/ \E s \in Slots : rs_market(s)
  \/ \E s \in Slots : rs_bets(s)
  \/ \E s \in Slots : rs_users(s)
  \/ \E s \in Slots : rs_commit(s)
  \/ \E s \in Slots, m \in MarketIds, cred \in Credentials : begin_delete_market(s, m, cred)
  \/ \E s \in Slots : dl_market(s)
  \/ \E s \in Slots : dl_bets(s)
  \/ \E s \in Slots : dl_users(s)
  \/ \E s \in Slots : dl_commit(s)
  \/ \E s \in Slots, m \in MarketIds : get_market(s, m)
  \/ \E s \in Slots : list_markets(s)

Spec == Init /\ [][Next]_vars

EngineNext ==
  \/ call_cost_function
  \/ call_cost_for_shares
  \/ call_price_yes
  \/ call_price_no
  \/ call_cost_for_shares_again
  \/ call_cost_for_next_shares
  \/ call_cost_for_double_shares
  \/ call_price_yes_after
  \/ call_cost_for_mirrored_shares

\* the engine called with no request in progress
InitEngine ==
  /\ eng \in EngineCalls
  /\ clock = 0
  /\ dialect = "sqlite" /\ users = <<>> /\ markets = <<>> /\ bets = <<>> /\ bet_seq = 0
  /\ req = [s \in Slots |-> Idle] /\ started = 0 /\ audit = <<>> /\ paid = {}

SpecEngine == InitEngine /\ [][EngineNext]_vars

\* Two markets and two users exist, and only bets are placed
TwoMarkets == {1, 2}
Liquidities == {create_liquidity(l) : l \in LiquidityRequests}
LiquidityDefault == [given |-> FALSE, value |-> Zero]

InitTrades ==
  /\ eng = EngineIdle
  /\ dialect \in Dialects
  /\ clock = 0
  /\ users = [u \in UserIds |-> new_user]
  /\ \E l \in Liquidities :
       markets = [m \in TwoMarkets |->
                    [yes_shares |-> Zero, no_shares |-> Zero,
                     liquidity |-> IF m = 1 THEN l ELSE create_liquidity(LiquidityDefault),
                     resolved |-> FALSE, outcome |-> None]]
  /\ bets = <<>> /\ bet_seq = 0
  /\ req = [s \in Slots |-> Idle] /\ started = 0 /\ audit = <<>> /\ paid = {}

NextTrades ==
  \/ \E s \in Slots, u \in UserIds, m \in TwoMarkets, side \in BetSides, amount \in Amounts :
       begin_place_bet(s, u, m, side, amount)
  \/ \E s \in Slots : pb_user(s)
  \/ \E s \in Slots : pb_market(s)
  \/ \E s \in Slots : pb_commit(s)

SpecTrades == InitTrades /\ [][NextTrades]_vars

\* Three bets on one market of liquidity 1, of quantities for which
\* exp(q / b) is close to the largest float
MaxBets == 3
LargeAmounts == {FromInt(22), Rnd(1, -3)}

InitLarge ==
  /\ eng = EngineIdle
  /\ dialect \in Dialects
  /\ clock = 0
  /\ users = [u \in UserIds |-> new_user]
  /\ markets = <<[yes_shares |-> Zero, no_shares |-> Zero,
                  liquidity |-> create_liquidity([given |-> TRUE, value |-> FromInt(1)]),
                  resolved |-> FALSE, outcome |-> None]>>
  /\ bets = <<>> /\ bet_seq = 0
  /\ req = [s \in Slots |-> Idle] /\ started = 0 /\ audit = <<>> /\ paid = {}

NextLarge ==
  \/ \E s \in Slots, u \in UserIds, side \in BetSides, amount \in LargeAmounts :
       can_begin_within(s, MaxBets) /\ receive_place_bet(s, u, 1, side, amount)
  \/ \E s \in Slots : pb_user(s)
  \/ \E s \in Slots : pb_market(s)
  \/ \E s \in Slots : pb_commit(s)
  \/ \E s \in Slots : pb_commit_refused(s)

SpecLarge == InitLarge /\ [][NextLarge]_vars

\* Bets on one market of liquidity 100 and its resolution, MaxBets requests
TradeAmounts == {FromInt(10), FromInt(100)}

InitTraded ==
  /\ eng = EngineIdle
  /\ dialect \in Dialects
  /\ clock = 0
  /\ users = [u \in UserIds |-> new_user]
  /\ markets = <<[yes_shares |-> Zero, no_shares |-> Zero,
                  liquidity |-> create_liquidity([given |-> FALSE, value |-> Zero]),
                  resolved |-> FALSE, outcome |-> None]>>
  /\ bets = <<>> /\ bet_seq = 0
  /\ req = [s \in Slots |-> Idle] /\ started = 0 /\ audit = <<>> /\ paid = {}

NextTraded ==
  \/ \E s \in Slots, u \in UserIds, side \in BetSides, amount \in TradeAmounts :
       can_begin_within(s, MaxBets) /\ receive_place_bet(s, u, 1, side, amount)
  \/ \E s \in Slots : pb_user(s)
  \/ \E s \in Slots : pb_market(s)
  \/ \E s \in Slots : pb_commit(s)
  \/ \E s \in Slots, outcome \in Outcomes :
       can_begin_within(s, MaxBets) /\ receive_resolve_market(s, 1, outcome)
  \/ \E s \in Slots : rs_market(s)
  \/ \E s \in Slots : rs_bets(s)
  \/ \E s \in Slots : rs_users(s)
  \/ \E s \in Slots : rs_commit(s)

SpecTraded == InitTraded /\ [][NextTraded]_vars

\* The tables once user 1 has bought amount shares of side_upper at total_cost in
\* a new market of liquidity 100
after_first_bet(side_upper, amount, total_cost) ==
  /\ users = [u \in UserIds |->
                [new_user EXCEPT !.balance = IF u = 1 THEN FSub(FromInt(100), total_cost) ELSE FromInt(100)]]
  /\ markets = <<[yes_shares |-> new_totals(Zero, Zero, amount, side_upper)[1],
                  no_shares |-> new_totals(Zero, Zero, amount, side_upper)[2],
                  liquidity |-> FromInt(100), resolved |-> FALSE, outcome |-> None]>>
  /\ bets = <<[id |-> 1, user_id |-> 1, market_id |-> 1, side |-> side_upper,
               amount |-> amount, total_cost |-> total_cost]>>
  /\ bet_seq = 1
  /\ audit = <<[market_id |-> 1, priced |-> <<Zero, Zero>>, found |-> <<Zero, Zero>>,
                resolved |-> FALSE]>>

\* Two users claim the bonus, MaxClaims requests.  A user has registered, or has
\* claimed the bonus 8 or 9 times, the last time at hour 0.  Time passes in steps of
\* 11 or 12 hours: 22, 23 and 24 hours after hour 0 occur.
Histories == {new_user,
              [balance |-> FromInt(500), last_bonus_claim |-> {0}],
              [balance |-> FromInt(550), last_bonus_claim |-> {0}]}
Steps == {11, 12}
ClaimIds == UserIds \cup {MaxUsers + 1}

InitBonus ==
  /\ eng = EngineIdle
  /\ dialect \in Dialects
  /\ clock = 0
  /\ users \in [UserIds -> Histories]
  /\ markets = <<>> /\ bets = <<>> /\ bet_seq = 0
  /\ req = [s \in Slots |-> Idle] /\ started = 0 /\ audit = <<>> /\ paid = {}

NextBonus ==
  \/ \E s \in Slots, u \in ClaimIds :
       can_begin_within(s, MaxClaims) /\ receive_claim_daily_bonus(s, u)
  \/ \E s \in Slots : cb_user(s)
  \/ \E s \in Slots : cb_commit(s)
  \/ \E hours \in Steps : tick(hours)

SpecBonus == InitBonus /\ [][NextBonus]_vars

\* One bet has been placed, and the market is resolved or deleted; started counts
\* the requests received from then on
InitSettle ==
  /\ eng = EngineIdle
  /\ dialect \in Dialects
  /\ clock = 0
  /\ \E side_upper \in {YES, NO}, amount \in Amounts :
       after_first_bet(side_upper, amount,
                       cost_for_shares(Zero, Zero, amount, side_upper, FromInt(100)).val)
  /\ req = [s \in Slots |-> Idle] /\ started = 0 /\ paid = {}

NextSettle ==
  \/ \E s \in Slots, m \in MarketIds, outcome \in Outcomes : begin_resolve_market(s, m, outcome)
  \/ \E s \in Slots : rs_market(s)
  \/ \E s \in Slots : rs_bets(s)
  \/ \E s \in Slots : rs_users(s)
  \/ \E s \in Slots : rs_commit(s)
  \/ \E s \in Slots, m \in MarketIds, cred \in Credentials : begin_delete_market(s, m, cred)
  \/ \E s \in Slots : dl_market(s)
  \/ \E s \in Slots : dl_bets(s)
  \/ \E s \in Slots : dl_users(s)
  \/ \E s \in Slots : dl_commit(s)

SpecSettle == InitSettle /\ [][NextSettle]_vars

(***************************************************************************)
(* Properties of the request handlers (specification Spec)                 *)
(***************************************************************************)
\* the shares staked on side of market m by the recorded bets, in commit order
RECURSIVE staked(_, _, _)
staked(bs, m, side) ==
  IF bs = <<>> THEN Zero
  ELSE IF bs[Len(bs)].market_id = m /\ bs[Len(bs)].side = side
       THEN FAdd(staked(SubSeq(bs, 1, Len(bs) - 1), m, side), bs[Len(bs)].amount)
       ELSE staked(SubSeq(bs, 1, Len(bs) - 1), m, side)

\* C1: trades on one market are serialized: every accepted bet was priced from the
\* share totals its commit found in the market row, and the totals of a market
\* are the initial totals (zero) plus the amounts of all the bets accepted on it.
C1_TradesSerialized ==
  /\ \A i \in DOMAIN audit : audit[i].priced = audit[i].found
  /\ \A m \in DOMAIN markets :
       markets[m].outcome # DELETED =>
         /\ markets[m].yes_shares = staked(bets, m, YES)
         /\ markets[m].no_shares = staked(bets, m, NO)

\* slot s handles a place_bet that arrived when its market was already resolved
bet_on_resolved(s) == req[s].op = "place_bet" /\ req[s].resolved_at_begin

\* C2: a place_bet on a market whose resolved flag is set is rejected with an
\* error (it never reaches its commit), and none of its steps changes the share
\* totals, a balance or the bets.
C2_NoTradeOnResolved ==
  /\ [](\A s \in Slots :
          bet_on_resolved(s) =>
            /\ req[s].pc \in {"pb_user", "pb_market", "done"}
            /\ req[s].pc = "done" =>
                 /\ req[s].status \in {400, 404}
                 /\ req[s].detail \in {"Market is already resolved", "User not found"})
  /\ [][\A s \in Slots :
          (bet_on_resolved(s) /\ req[s].pc # "done" /\ req'[s] # req[s]) =>
            UNCHANGED <<users, markets, bets>>]_vars

\* C2 happens: a bet on a resolved market has been answered 400
C2_Witness ==
  \E s \in Slots :
    /\ bet_on_resolved(s)
    /\ req[s].pc = "done"
    /\ req[s].status = 400
    /\ req[s].detail = "Market is already resolved"
    /\ is_resolved(1)

\* C3: resolution is serialized against trades: every accepted bet on the
\* winning side of a resolved market was in the bet set the payout was computed from.
C3_ResolutionSerialized ==
  \A m \in DOMAIN markets :
    (markets[m].resolved /\ markets[m].outcome \in {YES, NO}) =>
      \A i \in DOMAIN bets :
        (bets[i].market_id = m /\ bets[i].side = markets[m].outcome) => bets[i].id \in paid

\* C10: once a market is resolved to YES or NO, no step changes its resolved
\* flag, outcome, share totals or liquidity.
C10_ResolvedImmutable ==
  [][\A m \in DOMAIN markets :
       (markets[m].resolved /\ markets[m].outcome \in {YES, NO}) => markets'[m] = markets[m]]_vars

\* C11: for a resolved market, get_market and list_markets report price 1.0 for
\* the side equal to the recorded outcome and 0.0 for the other side, and never
\* 1.0 for a side that is not the recorded outcome.
C11_ResolvedPrices ==
  \A s \in Slots : \A i \in DOMAIN req[s].report :
    req[s].report[i].resolved =>
      /\ req[s].report[i].price_yes = FromInt(1) => req[s].report[i].outcome = YES
      /\ req[s].report[i].price_no = FromInt(1) => req[s].report[i].outcome = NO
      /\ req[s].report[i].outcome = YES =>
           (req[s].report[i].price_yes = FromInt(1) /\ req[s].report[i].price_no = Zero)
      /\ req[s].report[i].outcome = NO =>
           (req[s].report[i].price_yes = Zero /\ req[s].report[i].price_no = FromInt(1))

\* the amounts of user u's bets on side of market m, added up in the order of the bets
RECURSIVE winnings(_, _, _, _)
winnings(bs, m, u, side) ==
  IF bs = <<>> THEN Zero
  ELSE IF bs[Len(bs)].market_id = m /\ bs[Len(bs)].user_id = u /\ bs[Len(bs)].side = side
       THEN FAdd(winnings(SubSeq(bs, 1, Len(bs) - 1), m, u, side), bs[Len(bs)].amount)
       ELSE winnings(SubSeq(bs, 1, Len(bs) - 1), m, u, side)

\* C12: the commit of a resolve_market to outcome X adds to the balance of every
\* user the amounts of the user's bets on side X of the market, and changes no
\* balance by any other amount.
C12_Payout ==
  [][\A s \in Slots :
       (req[s].op = "resolve_market" /\ req[s].pc = "rs_commit" /\ req'[s].pc = "done") =>
         \A u \in DOMAIN users :
           users'[u].balance =
             FAdd(users[u].balance, winnings(bets, req[s].market_id, u, req[s].side))]_vars

\* C13: the share totals of a market are 0 at its creation and, while it is
\* unresolved, no step decreases them or makes them negative.
C13_SharesMonotone ==
  [][\A m \in DOMAIN markets' :
       IF m \notin DOMAIN markets
       THEN markets'[m].yes_shares = Zero /\ markets'[m].no_shares = Zero
       ELSE ~markets[m].resolved =>
              /\ FLe(markets[m].yes_shares, markets'[m].yes_shares)
              /\ FLe(markets[m].no_shares, markets'[m].no_shares)
              /\ FLe(Zero, markets'[m].yes_shares)
              /\ FLe(Zero, markets'[m].no_shares)]_vars

\* C14: create_market stores a liquidity > 0 whatever liquidity is requested,
\* and no step changes the liquidity of a market.
C14_LiquidityFixed ==
  [][\A m \in DOMAIN markets' :
       /\ FLt(Zero, markets'[m].liquidity)
       /\ m \in DOMAIN markets => markets'[m].liquidity = markets[m].liquidity]_vars

\* C14 happens: a market created with the default liquidity has been traded and
\* resolved
C14_Witness ==
  \E m \in DOMAIN markets :
    /\ markets[m].liquidity = FromInt(100)
    /\ markets[m].resolved
    /\ markets[m].no_shares # Zero

(***************************************************************************)
(* Properties of the pricing engine (specification SpecEngine)             *)
(***************************************************************************)
\* the engine's caller contract: non-negative totals, positive liquidity
valid_state == eng.q_yes[1] >= 0 /\ eng.q_no[1] >= 0 /\ eng.b[1] > 0 /\ IsFinite(eng.b)

\* a positive quantity of a side that normalizes to YES or NO
valid_trade == eng.delta[1] > 0 /\ IsFinite(eng.delta) /\ upper(eng.side) \in {YES, NO}

\* the cost function at the totals after the trade, and before it
cost_after ==
  IF upper(eng.side) = YES
  THEN cost_function(FAdd(eng.q_yes, eng.delta), eng.q_no, eng.b)
  ELSE cost_function(eng.q_yes, FAdd(eng.q_no, eng.delta), eng.b)
cost_before == cost_function(eng.q_yes, eng.q_no, eng.b)

\* C4: for every valid state and delta > 0, cost_for_shares returns the cost
\* function at the totals with the requested side increased by delta, minus the
\* cost function at the current totals.
C4_CostIsDifference ==
  (eng.cost # Pending /\ valid_state /\ valid_trade) =>
    /\ Returned(eng.cost) /\ Returned(cost_after) /\ Returned(cost_before)
    /\ eng.cost.val = FSub(cost_after.val, cost_before.val)

\* C5: for every valid state, either side and delta > 0, a cost that
\* cost_for_shares returns is strictly greater than 0.
C5_PositiveCost ==
  (eng.cost # Pending /\ valid_state /\ valid_trade /\ Returned(eng.cost)) =>
    (~IsNaN(eng.cost.val) /\ eng.cost.val[1] > 0)

\* C6: cost_for_shares fails with "delta must be positive" for every delta <= 0,
\* and with "side must be 'YES' or 'NO'" for every delta > 0 with a side that
\* normalizes to neither; no cost is returned in either case.
C6_Validation ==
  eng.cost # Pending =>
    /\ (IsFinite(eng.delta) /\ eng.delta[1] <= 0) =>
         /\ ~Returned(eng.cost)
         /\ eng.cost.exc = "ValueError"
         /\ eng.cost.msg = "delta must be positive"
    /\ (eng.delta[1] > 0 /\ upper(eng.side) \notin {YES, NO}) =>
         /\ ~Returned(eng.cost)
         /\ eng.cost.exc = "ValueError"
         /\ eng.cost.msg = "side must be 'YES' or 'NO'"

\* C6 happens: a call with quantity zero and a valid side has failed
C6_Witness ==
  /\ eng.cost # Pending
  /\ eng.delta = Zero
  /\ eng.side = YES
  /\ eng.cost.msg = "delta must be positive"

\* C7: for every valid input, price_yes and the cost function return a finite
\* value: no overflow error, no NaN, no infinity.
C7_Stable ==
  valid_state =>
    /\ eng.C # Pending => (Returned(eng.C) /\ IsFinite(eng.C.val))
    /\ eng.p_yes # Pending => (Returned(eng.p_yes) /\ IsFinite(eng.p_yes.val))

\* C8: for every valid state, price_yes + price_no equals 1.0 exactly.
C8_Complement ==
  (eng.p_no # Pending /\ valid_state) =>
    /\ Returned(eng.p_yes) /\ Returned(eng.p_no)
    /\ FAdd(eng.p_yes.val, eng.p_no.val) = FromInt(1)

\* C9: for every valid finite state, a price that price_yes returns is strictly
\* between 0 and 1.
C9_Range ==
  (eng.p_yes # Pending /\ valid_state /\ Returned(eng.p_yes)) =>
    (FLt(Zero, eng.p_yes.val) /\ FLt(eng.p_yes.val, FromInt(1)))

\* C15: the finite costs of two successive trades of delta shares add up to
\* the cost of one trade of 2 * delta shares from the same starting totals,
\* which is C(final) - C(start).
C15_PathIndependent ==
  (/\ eng.cost_double # Pending /\ valid_state /\ valid_trade
   /\ Returned(eng.cost) /\ Returned(eng.cost_next) /\ Returned(eng.cost_double)
   /\ IsFinite(eng.cost.val) /\ IsFinite(eng.cost_next.val)
   /\ IsFinite(eng.cost_double.val)) =>
    FAdd(eng.cost.val, eng.cost_next.val) = eng.cost_double.val

C18_PriceMonotone ==
  (/\ eng.p_yes_after # Pending /\ valid_state
   /\ IsFinite(eng.delta) /\ FLt(eng.q_yes, FAdd(eng.q_yes, eng.delta))
   /\ Returned(eng.p_yes) /\ Returned(eng.p_yes_after)
   /\ IsFinite(eng.p_yes.val) /\ IsFinite(eng.p_yes_after.val)) =>
    FLt(eng.p_yes.val, eng.p_yes_after.val)

\* C19: for a fixed state the finite cost of 2 * delta shares is at least the
\* finite cost of delta shares, and for YES at least twice that cost.
C19_Convex ==
  (/\ eng.cost_double # Pending /\ valid_state /\ valid_trade
   /\ Returned(eng.cost) /\ Returned(eng.cost_double)
   /\ IsFinite(eng.cost.val) /\ IsFinite(eng.cost_double.val)) =>
    /\ FLe(eng.cost.val, eng.cost_double.val)
    /\ upper(eng.side) = YES => FLe(FMul(FromInt(2), eng.cost.val), eng.cost_double.val)

\* C20: with q_yes = q_no = 0 and any b > 0, price_yes and price_no are both 0.5,
\* the prices create_market returns.
C20_Symmetry ==
  (eng.p_no # Pending /\ eng.q_yes = Zero /\ eng.q_no = Zero /\ valid_state) =>
    /\ eng.p_yes = [exc |-> "none", msg |-> "", val |-> initial_price]
    /\ eng.p_no = [exc |-> "none", msg |-> "", val |-> initial_price]

\* C20 happens: the prices of an empty market of very small liquidity were computed
C20_Witness ==
  /\ eng.p_no # Pending
  /\ eng.q_yes = Zero /\ eng.q_no = Zero
  /\ eng.b = <<1, EminQ>>
  /\ eng.p_no.val = Rnd(1, -1)

\* C21: buying delta shares of one side at the totals (x, y) has the same result
\* (the same cost, or the same exception) as buying delta shares of the other
\* side at the totals (y, x).
C21_SideSymmetry ==
  (eng.cost_mirror # Pending /\ valid_state /\ valid_trade) => eng.cost_mirror = eng.cost

\* C21 happens: 5 NO shares at (5, 0, 100) and 5 YES shares at (0, 5, 100)
C21_Witness ==
  /\ eng.cost_mirror # Pending
  /\ eng.q_yes = FromInt(5) /\ eng.q_no = Zero /\ eng.delta = FromInt(5)
  /\ eng.b = FromInt(100) /\ eng.side = NO
  /\ Returned(eng.cost_mirror) /\ FLt(Zero, eng.cost_mirror.val)

(***************************************************************************)
(* Properties of trades on two markets (specification SpecTrades)          *)
(***************************************************************************)
\* balance once the cost of bet is charged to user u
charged(balance, bet, u) ==
  IF bet.user_id = u THEN FSub(balance, bet.total_cost) ELSE balance

\* the cost of bet when it is the first trade of its market
first_cost(bet) ==
  cost_for_shares(Zero, Zero, bet.amount, bet.side, markets[bet.market_id].liquidity)

\* C16: when two bets on two different markets have been accepted, the share
\* totals, the recorded costs and every balance are those of the two requests
\* run one after the other in some order.
C16_Independent ==
  (/\ Len(bets) = 2
   /\ bets[1].market_id # bets[2].market_id
   /\ \A s \in Slots : req[s].pc = "done") =>
    /\ \A m \in DOMAIN markets :
         /\ markets[m].yes_shares = staked(bets, m, YES)
         /\ markets[m].no_shares = staked(bets, m, NO)
    /\ \A i \in DOMAIN bets : bets[i].total_cost = first_cost(bets[i]).val
    /\ \A u \in DOMAIN users :
         users[u].balance \in
           {charged(charged(FromInt(100), bets[1], u), bets[2], u),
            charged(charged(FromInt(100), bets[2], u), bets[1], u)}

\* C23: a market is added only by a create_market that carries the admin
\* username and password, and a step of resolve_market or delete_market changes
\* a market or a balance only for a request that carried them.
C23_AdminOnly ==
  [][/\ Len(markets') > Len(markets) =>
          \E l \in LiquidityRequests :
            create_market(l, <<ADMIN_USERNAME, ADMIN_PASSWORD>>)
     /\ \A s \in Slots :
          (/\ req[s].op \in {"resolve_market", "delete_market"}
           /\ req'[s] # req[s]
           /\ (markets' # markets \/ users' # users)) => req[s].admin]_vars

\* the bets of bs that win with outcome_upper
winners(bs, outcome_upper) == {i \in DOMAIN bs : is_winner(bs[i], outcome_upper)}

\* C24: a resolve_market takes effect only on a market no resolve_market has
\* taken effect on, it sets the outcome in the step that credits the winners,
\* and it pays no bet that a resolution has already paid.
C24_ResolvedOnce ==
  [][\A s \in Slots :
       (req[s].op = "resolve_market" /\ req[s].pc = "rs_commit" /\ req'[s].pc = "done") =>
         /\ ~(markets[req[s].market_id].resolved
              /\ markets[req[s].market_id].outcome \in {YES, NO})
         /\ markets'[req[s].market_id].resolved
         /\ markets'[req[s].market_id].outcome = req[s].side
         /\ \A i \in winners(req[s].s_bets, req[s].side) : req[s].s_bets[i].id \notin paid]_vars

\* bet is still in the table of bets
recorded(bet) == \E i \in DOMAIN bets : bets[i] = bet

\* C25: a delete_market refunds only bets that no resolution has paid and that
\* are still recorded (not refunded before), and a resolve_market pays only bets
\* that are still recorded.
C25_SettledOnce ==
  [][\A s \in Slots :
       /\ (req[s].op = "delete_market" /\ req[s].pc = "dl_commit" /\ req'[s].pc = "done") =>
            \A i \in DOMAIN req[s].s_bets :
              req[s].s_bets[i].id \notin paid /\ recorded(req[s].s_bets[i])
       /\ (req[s].op = "resolve_market" /\ req[s].pc = "rs_commit" /\ req'[s].pc = "done") =>
            \A i \in winners(req[s].s_bets, req[s].side) : recorded(req[s].s_bets[i])]_vars

\* C28: in every state the balance of every user is a number >= 0.
C28_NonNegative == \A u \in DOMAIN users : FLe(Zero, users[u].balance)

\* C29: in every state, the share totals of a market that has not been deleted
\* are the sums of the amounts of the recorded YES bets and of the recorded NO
\* bets on it.
C29_ShareAccounting ==
  \A m \in DOMAIN markets :
    markets[m].outcome # DELETED =>
      <<markets[m].yes_shares, markets[m].no_shares>> = <<staked(bets, m, YES), staked(bets, m, NO)>>

\* the balance of every user once the bets bs are refunded
all_refunded(bs) == [u \in DOMAIN users |-> [users[u] EXCEPT !.balance = refunded(bs, u, users[u].balance)]]

\* C30: the commit of a delete_market of an unresolved market adds to the
\* balance of every user the total_cost of each of the user's bets on the
\* market, removes the bets of the market and leaves the market inactive.
C30_DeleteRefunds ==
  [][\A s \in Slots :
       (/\ req[s].op = "delete_market" /\ req[s].pc = "dl_commit" /\ req'[s].pc = "done"
        /\ ~markets[req[s].market_id].resolved) =>
         /\ users' = all_refunded(market_bets(req[s].market_id))
         /\ \A i \in DOMAIN bets' : bets'[i].market_id # req[s].market_id
         /\ markets'[req[s].market_id].resolved]_vars

\* the letter-case variants of a side label
YesLabels == {YES, <<"y", "e", "s">>, <<"Y", "e", "s">>, <<"y", "E", "S">>}
NoLabels == {NO, <<"n", "o">>, <<"N", "o">>, <<"n", "O">>}
canonical(side) == IF side \in YesLabels THEN YES ELSE NO
variants(side) == IF side \in YesLabels THEN YesLabels ELSE NoLabels

\* every label of labels gives the result c for amount shares of market
same_cost(market, amount, labels, c) ==
  \A v \in labels :
    cost_for_shares(market.yes_shares, market.no_shares, amount, v, market.liquidity) = c

\* C22: when place_bet prices a trade, cost_for_shares has the same result for
\* every letter-case variant of the side label as for "YES" (resp. "NO"); the
\* request goes on with the upper-case label and that cost, and the bet is
\* recorded under the upper-case label.
C22_CaseInsensitive ==
  [][\A s \in Slots :
       /\ (/\ req[s].pc = "pb_market" /\ req'[s].pc # "pb_market"
           /\ req[s].market_id \in DOMAIN markets
           /\ ~markets[req[s].market_id].resolved) =>
            /\ same_cost(markets[req[s].market_id], req[s].amount, variants(req[s].side),
                         cost_for_shares(markets[req[s].market_id].yes_shares,
                                         markets[req[s].market_id].no_shares,
                                         req[s].amount, canonical(req[s].side),
                                         markets[req[s].market_id].liquidity))
            /\ req'[s].pc = "pb_commit" =>
                 /\ req'[s].side = canonical(req[s].side)
                 /\ same_cost(markets[req[s].market_id], req[s].amount, {req[s].side},
                              Return(req'[s].total_cost))
       /\ (req[s].pc = "pb_commit" /\ req'[s].pc = "done") =>
            /\ Len(bets') = Len(bets) + 1
            /\ bets'[Len(bets')].side = req[s].side
            /\ bets'[Len(bets')].side \in {YES, NO}]_vars

\* C22 happens: a bet requested with the label "no" is recorded
C22_Witness ==
  \E i \in DOMAIN bets :
    /\ bets[i].side = NO
    /\ \E s \in Slots : req[s].op = "place_bet" /\ req[s].pc = "done" /\ req[s].status = 200

\* the bet a successful place_bet of slot s records when the trade costs total_cost
bet_of(s, total_cost) ==
  [id |-> bet_seq + 1, user_id |-> req[s].user_id, market_id |-> req[s].market_id,
   side |-> req[s].side, amount |-> req[s].amount, total_cost |-> total_cost]

\* the tables after the purchase of slot s at total_cost, applied to the tables as
\* they are
effect_of(s, q, total_cost) ==
  /\ markets' = [markets EXCEPT ![req[s].market_id].yes_shares = q[1],
                                ![req[s].market_id].no_shares = q[2]]
  /\ users' = [users EXCEPT ![req[s].user_id].balance = FSub(@, total_cost)]
  /\ bets' = Append(bets, bet_of(s, total_cost))

\* C26: the commit of a successful place_bet adds the amount to the share total
\* of the chosen side of the market and leaves the other total unchanged, takes
\* from the balance of the user the cost computed at the totals before the
\* trade, records one bet with that side, amount and cost, and changes no other
\* market and no other user.
C26_BetEffect ==
  [][\A s \in Slots :
       (/\ req[s].op = "place_bet" /\ req[s].pc = "pb_commit"
        /\ req'[s].pc = "done" /\ req'[s].status = 200) =>
         effect_of(s, new_totals(markets[req[s].market_id].yes_shares,
                                 markets[req[s].market_id].no_shares,
                                 req[s].amount, req[s].side),
                   cost_for_shares(markets[req[s].market_id].yes_shares,
                                   markets[req[s].market_id].no_shares,
                                   req[s].amount, req[s].side,
                                   markets[req[s].market_id].liquidity).val)]_vars

\* the request of slot s has failed with status and detail
failed(s, status, detail) ==
  req'[s].pc = "done" /\ req'[s].status = status /\ req'[s].detail = detail

\* the request of slot s is rejected if the balance is smaller than total_cost
rejected_if_short(s, balance, total_cost) ==
  (Returned(total_cost) /\ FLt(balance, total_cost.val)) =>
    failed(s, 400, "Insufficient balance to place bet")

\* C27: when place_bet has computed the cost of a trade and the balance of the
\* user is smaller, the request fails with 400; a place_bet that fails changes
\* no share total, no balance and no bet.
C27_InsufficientFunds ==
  [][\A s \in Slots :
       /\ (/\ req[s].op = "place_bet" /\ req[s].pc = "pb_market" /\ req'[s].pc # "pb_market"
           /\ req[s].market_id \in DOMAIN markets
           /\ ~markets[req[s].market_id].resolved) =>
            rejected_if_short(s, users[req[s].user_id].balance,
                              cost_for_shares(markets[req[s].market_id].yes_shares,
                                              markets[req[s].market_id].no_shares,
                                              req[s].amount, req[s].side,
                                              markets[req[s].market_id].liquidity))
       /\ (/\ req[s].op = "place_bet" /\ req[s].pc \in {"pb_user", "pb_market"}
           /\ req'[s].pc = "done") =>
            /\ req'[s].status \in {400, 404, 500}
            /\ UNCHANGED <<users, markets, bets>>]_vars

\* the credits of a resolution to outcome_upper that read the bets bs, added up
\* over the users us
RECURSIVE paid_out(_, _, _)
paid_out(bs, us, outcome_upper) ==
  IF us = {} THEN Zero
  ELSE LET u == CHOOSE v \in us : TRUE
       IN FAdd(paid_out(bs, us \ {u}, outcome_upper), credit_by_user(bs, u, outcome_upper))

\* the total_cost of the recorded bets on market m, added up
RECURSIVE collected(_, _)
collected(bs, m) ==
  IF bs = <<>> THEN Zero
  ELSE IF bs[Len(bs)].market_id = m
       THEN FAdd(collected(SubSeq(bs, 1, Len(bs) - 1), m), bs[Len(bs)].total_cost)
       ELSE collected(SubSeq(bs, 1, Len(bs) - 1), m)

\* b * ln(2), as cost_function(0, 0, b) computes it
loss_bound(b) == cost_function(Zero, Zero, b).val

\* C31: when a resolve_market takes effect, what it pays to the winners minus the
\* total_cost of all recorded bets on the market is at most b * ln(2), for the
\* liquidity b of the market.
C31_BoundedLoss ==
  [][\A s \in Slots :
       (req[s].op = "resolve_market" /\ req[s].pc = "rs_commit" /\ req'[s].pc = "done") =>
         FLe(FSub(paid_out(req[s].s_bets, credited(req[s].s_bets, req[s].side), req[s].side),
                  collected(bets, req[s].market_id)),
             loss_bound(markets[req[s].market_id].liquidity))]_vars

\* C32: a claim_daily_bonus that succeeds adds exactly 50 to the balance of the
\* user, whose balance was <= 500 and whose previous successful claim, if any, is
\* at least 23 hours older than this one, and records the time of the claim; a
\* claim_daily_bonus that fails changes no balance and no last_bonus_claim.
C32_BonusCooldown ==
  [][\A s \in Slots :
       (req[s].op = "claim_daily_bonus" /\ req'[s].pc = "done" /\ req[s].pc # "done") =>
         IF req'[s].status = 200
         THEN LET u == req[s].user_id
              IN /\ users'[u].balance = FAdd(users[u].balance, BonusAmount)
                 /\ FLe(users[u].balance, BonusLimit)
                 /\ \A t \in users[u].last_bonus_claim : req[s].now - t >= BonusCooldown
                 /\ users'[u].last_bonus_claim = {req[s].now}
                 /\ \A v \in DOMAIN users \ {u} : users'[v] = users[v]
         ELSE users' = users]_vars

====
